---- MODULE Spec2Model ----
(***************************************************************************)
(* Model of ollama_subs.py: the SRT parser, the prompt builder, the reply  *)
(* parser, the recursive batch translator and the pipeline driver.         *)
(*                                                                         *)
(* A Python str is a sequence of one-character strings.  A dict keyed by   *)
(* subtitle ID is a function whose domain is a set of such sequences.  A   *)
(* batch is a sequence of positions in `subtitles`: Python's slices hold   *)
(* references to the very dicts of the list, which main() mutates.         *)
(***************************************************************************)
EXTENDS Integers, Sequences, FiniteSets, TLC

\* ------------------------------------------------------------------ bounds
MaxBlocks == 3
MaxBatchSize == 3
MaxRetries == 2
\* the backend raises at most this many times in a run
MaxErrors == 2
\* a reply given to the response parser on its own has at most this many lines
MaxReplyLines == 3
\* a subtitle text given to the subtitle parser on its own has at most this
\* many blocks
MaxSrtBlocks == 2

\* ------------------------------------------------------------- characters
NL == "\n"
SP == " "
GT == ">"

Digits == {"0", "1", "2", "3", "4", "5", "6", "7", "8", "9"}

\* str.isspace() over the characters the model uses
IsSpace(c) == c \in {" ", "\n", "\t", "\r"}

\* re's \d over the characters the model uses
IsDigit(c) == c \in Digits

\* ---------------------------------------------------------- str operations
RECURSIVE LStrip(_)
LStrip(s) ==
    IF s = <<>> THEN <<>>
    ELSE IF IsSpace(Head(s)) THEN LStrip(Tail(s)) ELSE s

RECURSIVE RStrip(_)
RStrip(s) ==
    IF s = <<>> THEN <<>>
    ELSE IF IsSpace(s[Len(s)]) THEN RStrip(SubSeq(s, 1, Len(s) - 1)) ELSE s

\* str.strip()
Strip(s) == RStrip(LStrip(s))

RECURSIVE SplitFrom(_, _, _, _)
SplitFrom(s, i, cur, acc) ==
    IF i > Len(s) THEN Append(acc, cur)
    ELSE IF s[i] = NL THEN SplitFrom(s, i + 1, <<>>, Append(acc, cur))
    ELSE SplitFrom(s, i + 1, Append(cur, s[i]), acc)

\* str.split('\n'): always at least one piece
SplitLines(s) == SplitFrom(s, 1, <<>>, <<>>)

RECURSIVE JoinLines(_)
\* "\n".join(lines)
JoinLines(lines) ==
    IF lines = <<>> THEN <<>>
    ELSE IF Len(lines) = 1 THEN lines[1]
    ELSE lines[1] \o <<NL>> \o JoinLines(Tail(lines))

RECURSIVE SkipNewlines(_, _)
SkipNewlines(s, i) ==
    IF i <= Len(s) /\ s[i] = NL THEN SkipNewlines(s, i + 1) ELSE i

RECURSIVE SplitBlocksFrom(_, _, _, _)
SplitBlocksFrom(s, i, cur, acc) ==
    IF i > Len(s) THEN Append(acc, cur)
    ELSE IF s[i] = NL /\ i + 1 <= Len(s) /\ s[i + 1] = NL
         THEN SplitBlocksFrom(s, SkipNewlines(s, i), <<>>, Append(acc, cur))
         ELSE SplitBlocksFrom(s, i + 1, Append(cur, s[i]), acc)

\* re.split(r'\n\n+', s)
SplitBlocks(s) == SplitBlocksFrom(s, 1, <<>>, <<>>)

\* re.sub(r'\D', '', s)
RemoveNonDigits(s) == SelectSeq(s, IsDigit)

\* ------------------------------------------------------------- parse_srt
\* one block of parse_srt's loop: the record appended, or nothing
BlockRecords(block) ==
    LET lines == SplitLines(block) IN
    IF Len(lines) >= 3
    THEN << [index           |-> RemoveNonDigits(Strip(lines[1])),
             timestamp       |-> Strip(lines[2]),
             text            |-> JoinLines(SubSeq(lines, 3, Len(lines))),
             translated_text |-> <<>>] >>
    ELSE <<>>

RECURSIVE RecordsOf(_)
RecordsOf(blocks) ==
    IF blocks = <<>> THEN <<>>
    ELSE BlockRecords(Head(blocks)) \o RecordsOf(Tail(blocks))

parse_srt(srt_text) == RecordsOf(SplitBlocks(Strip(srt_text)))

\* --------------------------------------------------------- generate_prompt
RECURSIVE PromptLines(_)
PromptLines(subs) ==
    IF subs = <<>> THEN <<>>
    ELSE << Head(subs).index \o <<SP, GT, GT, GT, SP>> \o Head(subs).text >>
         \o PromptLines(Tail(subs))

\* the user content of the prompt (the system prompt is a constant text)
generate_prompt(subs) == JoinLines(PromptLines(subs))

\* ------------------------------------------------------ parse_llm_response
EmptyMap == <<>>

\* translation_map[k] = v
Put(map, k, v) ==
    [x \in (DOMAIN map) \cup {k} |-> IF x = k THEN v ELSE map[x]]

RECURSIVE CountDigits(_, _)
\* the length of the longest run of digits of s that starts at position i
CountDigits(s, i) ==
    IF i <= Len(s) /\ IsDigit(s[i]) THEN 1 + CountDigits(s, i + 1) ELSE 0

RECURSIVE SkipSpaces(_, _)
SkipSpaces(s, i) ==
    IF i <= Len(s) /\ IsSpace(s[i]) THEN SkipSpaces(s, i + 1) ELSE i

\* mutant of MatchNewBlock: the pattern ^(\d*)\s*>>>\s*(.*)
MatchNewBlockAnyId(line) ==
    LET d == CountDigits(line, 1)
        j == SkipSpaces(line, d + 1)
        k == SkipSpaces(line, j + 3)
    IN  IF j + 2 <= Len(line)
           /\ line[j] = GT /\ line[j + 1] = GT /\ line[j + 2] = GT
        THEN [matched |-> TRUE,
              id      |-> SubSeq(line, 1, d),
              text    |-> SubSeq(line, k, Len(line))]
        ELSE [matched |-> FALSE, id |-> <<>>, text |-> <<>>]

\* new_block_pattern.match(line) for ^(\d+)\s*>>>\s*(.*)
MatchNewBlock(line) ==
    LET d == CountDigits(line, 1)
        j == SkipSpaces(line, d + 1)
        k == SkipSpaces(line, j + 3)
    IN  IF d >= 1 /\ j + 2 <= Len(line)
           /\ line[j] = GT /\ line[j + 1] = GT /\ line[j + 2] = GT
        THEN [matched |-> TRUE,
              id      |-> SubSeq(line, 1, d),
              text    |-> SubSeq(line, k, Len(line))]
        ELSE [matched |-> FALSE, id |-> <<>>, text |-> <<>>]

\* mutant of FlushText: only the first line of an entry is kept
FlushTextFirstOnly(current_text_lines) ==
    IF current_text_lines = <<>> THEN <<>> ELSE Strip(current_text_lines[1])

\* the text stored for an ID when its entry is flushed
FlushText(current_text_lines) == Strip(JoinLines(current_text_lines))

RECURSIVE ParseLoop(_, _, _, _, _, _)
\* the for loop of parse_llm_response and the flush after it;
\* has_id is "current_id is not None"
ParseLoop(lines, i, has_id, current_id, current_text_lines, translation_map) ==
    IF i > Len(lines)
    THEN IF has_id
         THEN Put(translation_map, current_id, FlushText(current_text_lines))
         ELSE translation_map
    ELSE LET line == Strip(lines[i])
             m    == MatchNewBlock(line)
         IN  IF line = <<>>
             THEN ParseLoop(lines, i + 1, has_id, current_id,
                            current_text_lines, translation_map)
             ELSE IF m.matched
             THEN ParseLoop(lines, i + 1, TRUE, m.id,
                            IF m.text # <<>> THEN <<m.text>> ELSE <<>>,
                            IF has_id
                            THEN Put(translation_map, current_id,
                                     FlushText(current_text_lines))
                            ELSE translation_map)
             ELSE ParseLoop(lines, i + 1, has_id, current_id,
                            IF has_id THEN Append(current_text_lines, line)
                            ELSE current_text_lines,
                            translation_map)

parse_llm_response(response_text) ==
    ParseLoop(SplitLines(Strip(response_text)), 1, FALSE, <<>>, <<>>, EmptyMap)

\* ------------------------------------------------- process_batch_recursive
\* batch_ids = [sub['index'] for sub in batch]
RECURSIVE BatchIds(_)
BatchIds(subs) ==
    IF subs = <<>> THEN <<>> ELSE <<Head(subs).index>> \o BatchIds(Tail(subs))

\* mutant of Missing: only the first ID of the batch is validated
MissingFirstOnly(batch_ids, translation_map) ==
    IF batch_ids # <<>> /\ batch_ids[1] \notin DOMAIN translation_map
    THEN <<batch_ids[1]>>
    ELSE <<>>

\* missing = [bid for bid in batch_ids if bid not in translation_map]
Missing(batch_ids, translation_map) ==
    LET Absent(bid) == bid \notin DOMAIN translation_map
    IN  SelectSeq(batch_ids, Absent)

\* mutant of Mid: the midpoint rounded up
MidCeil(batch) == (Len(batch) + 1) \div 2

\* mid = len(batch) // 2
Mid(batch) == Len(batch) \div 2

\* mutant of LeftBatch: batch[:mid + 1]
LeftBatchInclusive(batch) == SubSeq(batch, 1, Mid(batch) + 1)

\* left_batch = batch[:mid]
LeftBatch(batch) == SubSeq(batch, 1, Mid(batch))

\* mutant of RightBatch: batch[mid - 1:]
RightBatchOverlap(batch) == SubSeq(batch, Mid(batch), Len(batch))

\* right_batch = batch[mid:]
RightBatch(batch) == SubSeq(batch, Mid(batch) + 1, Len(batch))

\* mutant of MergeResults: the right half's results are dropped
MergeLeftOnly(results_left, results_right) == results_left

\* {**results_left, **results_right}
MergeResults(results_left, results_right) ==
    [k \in (DOMAIN results_left) \cup (DOMAIN results_right) |->
        IF k \in DOMAIN results_right THEN results_right[k] ELSE results_left[k]]

\* ------------------------------------------------------------------ main
\* mutant of NumBatches: one slice more when batch_size divides total_subs
NumBatchesPlusOne(total_subs, batch_size) == (total_subs \div batch_size) + 1

\* range(0, total_subs, batch_size) has ceil(total_subs / batch_size) items
NumBatches(total_subs, batch_size) == (total_subs + batch_size - 1) \div batch_size

Min(a, b) == IF a <= b THEN a ELSE b

\* mutant of Chunk: subtitles[i:i + batch_size + 1]
ChunkOverlap(total_subs, batch_size) ==
    [k \in 1..NumBatches(total_subs, batch_size) |->
        [j \in 1..(Min(k * batch_size + 1, total_subs) - (k - 1) * batch_size) |->
            (k - 1) * batch_size + j]]

\* batches = [subtitles[i:i + batch_size] for i in range(0, total, batch_size)],
\* each slice as the sequence of the positions of its records
Chunk(total_subs, batch_size) ==
    [k \in 1..NumBatches(total_subs, batch_size) |->
        [j \in 1..(Min(k * batch_size, total_subs) - (k - 1) * batch_size) |->
            (k - 1) * batch_size + j]]

\* mutant of DriverText: translation_map.get(index, "") once the map is non-empty
DriverTextNoFallback(translation_map, sub) ==
    IF translation_map = EmptyMap THEN sub.text
    ELSE IF sub.index \in DOMAIN translation_map
         THEN translation_map[sub.index]
         ELSE <<>>

\* the text main() stores in sub['translated_text']
DriverText(translation_map, sub) ==
    IF translation_map # EmptyMap /\ sub.index \in DOMAIN translation_map
    THEN translation_map[sub.index]
    ELSE sub.text

\* mutant of WriteRecord: the blank line after the text is not written
WriteRecordNoBlank(sub) ==
    sub.index \o <<NL>> \o sub.timestamp \o <<NL>> \o sub.translated_text \o <<NL>>

\* the three writes of one record to stdout
WriteRecord(sub) ==
    sub.index \o <<NL>> \o sub.timestamp \o <<NL>> \o sub.translated_text \o <<NL, NL>>

RECURSIVE WriteAllReversed(_)
\* mutant of WriteAll: the records are written last first
WriteAllReversed(subs) ==
    IF subs = <<>> THEN <<>>
    ELSE WriteAllReversed(Tail(subs)) \o WriteRecord(Head(subs))

RECURSIVE WriteAll(_)
WriteAll(subs) ==
    IF subs = <<>> THEN <<>> ELSE WriteRecord(Head(subs)) \o WriteAll(Tail(subs))

\* ------------------------------------------------------------- the inputs
DigitChar(i) == <<"1", "2", "3", "4", "5", "6", "7", "8", "9">>[i]
SourceChar(i) == <<"a", "b", "c", "d", "e", "f", "g", "h", "i">>[i]
TargetChar(i) == <<"A", "B", "C", "D", "E", "F", "G", "H", "I">>[i]

\* a well-formed SRT block: index line, timecode line, one line of text
NormalBlock(i) == <<DigitChar(i), NL, "t", NL, SourceChar(i)>>

RECURSIVE NormalContent(_, _)
\* the blocks i..n, separated by one blank line
NormalContent(i, n) ==
    IF i > n THEN <<>>
    ELSE IF i = n THEN NormalBlock(i)
    ELSE NormalBlock(i) \o <<NL, NL>> \o NormalContent(i + 1, n)

\* an index line without digits (its ID becomes the empty string), then block 2
NoDigitContent == <<"x", NL, "t", NL, "a", NL, NL, "2", NL, "t", NL, "b">>

\* padded index and timecode, a two-line caption, extra blank lines and a
\* block of two lines, which parse_srt drops
RaggedContent ==
    <<NL, SP, "1", SP, NL, "t", SP, NL, "a", NL, "b", NL, NL, NL, "9", NL, "t", NL>>

\* two blocks with the same index line
DuplicateContent == <<"1", NL, "t", NL, "a", NL, NL, "1", NL, "t", NL, "b">>

\* what stdin may hold
Contents ==
    { NormalContent(1, n) : n \in 0..MaxBlocks }
    \cup {NoDigitContent, RaggedContent, DuplicateContent}

\* parse_srt on every input, evaluated once
ParsedContent == [c \in Contents |-> parse_srt(c)]

\* a reply line "ID >>> X" for the record at position p of subs, as the
\* system prompt asks for, with the ID copied from the prompt
AnswerLine(subs, p) == subs[p].index \o <<SP, GT, GT, GT, SP, TargetChar(p)>>

\* a reply line with nothing after the delimiter
BlankLine(subs, p) == subs[p].index \o <<SP, GT, GT, GT>>

\* a reply with one answer line per position of ps
Answer(subs, ps) == JoinLines([j \in 1..Len(ps) |-> AnswerLine(subs, ps[j])])

\* what ollama.chat may answer to the prompt of a batch: every line, all but
\* the last, all but the first, every line with the first one left blank,
\* every line after one for the record just before the batch
Replies(subs, batch) ==
    {Answer(subs, batch),
     Answer(subs, SubSeq(batch, 1, Len(batch) - 1)),
     Answer(subs, Tail(batch)),
     JoinLines(<<BlankLine(subs, batch[1])>>
               \o [j \in 1..Len(batch) - 1 |-> AnswerLine(subs, batch[j + 1])])}
    \cup (IF batch[1] > 1 THEN {Answer(subs, <<batch[1] - 1>> \o batch)} ELSE {})

\* the positions lo..hi as a batch
Interval(lo, hi) == [j \in 1..(hi - lo + 1) |-> lo + j - 1]

\* every reply to every (sub-)batch of the records of one input
RepliesOfContent(c) ==
    LET subs == ParsedContent[c]
        n    == Len(subs)
    IN  UNION { Replies(subs, Interval(lh[1], lh[2])) :
                  lh \in { x \in (1..n) \X (1..n) : x[1] <= x[2] } }

\* every reply to every (sub-)batch of every input
AllReplies == UNION { RepliesOfContent(c) : c \in Contents }

\* parse_llm_response on every reply, evaluated once
ParsedReply == [r \in AllReplies |-> parse_llm_response(r)]

\* the sequences over S of length at most n
SeqsUpTo(S, n) == UNION { [1..k -> S] : k \in 0..n }

\* the lines a reply is made of: entry headers (spaced, unspaced, padded,
\* with nothing after the delimiter, with a two-digit ID), continuation lines
\* (plain, padded), a delimiter without an ID, a blank line
ReplyLineKinds ==
    { <<"1", SP, GT, GT, GT, SP, "A">>,
      <<"2", GT, GT, GT, "B">>,
      <<"1", SP, GT, GT, GT>>,
      <<"1", "2", SP, SP, GT, GT, GT, SP, SP, "C", SP>>,
      <<"x">>,
      <<SP, "y", SP>>,
      <<GT, GT, GT, SP, "z">>,
      <<>> }

\* the reply "1 >>> Hello\nworld\n2 >>> Bye"
ExampleReply ==
    <<"1", SP, GT, GT, GT, SP, "H", "e", "l", "l", "o", NL,
      "w", "o", "r", "l", "d", NL,
      "2", SP, GT, GT, GT, SP, "B", "y", "e">>

\* what response['message']['content'] may hold, as free-form text
ReplyTexts ==
    { JoinLines(ls) : ls \in SeqsUpTo(ReplyLineKinds, MaxReplyLines) }
    \cup {ExampleReply}

\* index lines: digits, padding and stray symbols around a digit, no digit
IndexLineKinds == { <<"1">>, <<SP, "x", "2">>, <<"x">> }

\* timecode lines: plain, padded, only a space
TimeLineKinds == { <<"t">>, <<SP, "t">>, <<SP>> }

\* caption texts: one line, two lines with a trailing space, only a space
TextKinds == { <<"a">>, <<"a", NL, "b", SP>>, <<SP>> }

\* the blocks of a subtitle text: three lines or more, and one of two lines
SrtBlockKinds ==
    { i \o <<NL>> \o t \o <<NL>> \o x :
        i \in IndexLineKinds, t \in TimeLineKinds, x \in TextKinds }
    \cup { <<"9", NL, "t">> }

\* the separators between blocks: one blank line, two blank lines
SeparatorKinds == { <<NL, NL>>, <<NL, NL, NL>> }

RECURSIVE JoinBlocks(_, _)
JoinBlocks(blocks, sep) ==
    IF blocks = <<>> THEN <<>>
    ELSE IF Len(blocks) = 1 THEN blocks[1]
    ELSE blocks[1] \o sep \o JoinBlocks(Tail(blocks), sep)

\* what stdin may hold, as free-form text
SrtTexts ==
    { JoinBlocks(bs, sep) :
        bs \in SeqsUpTo(SrtBlockKinds, MaxSrtBlocks), sep \in SeparatorKinds }

\* ------------------------------------------------------------------ state
VARIABLES
    content,    \* input_content: the text read from stdin
    args,       \* args.batch_size, args.retries
    subtitles,  \* the list parse_srt returned; main() fills translated_text
    batches,    \* the slices of subtitles, as sequences of positions
    bi,         \* the batch the for loop of main() is at (1-based)
    pc,         \* where main() is: parse, loop, wait, write, done, crashed
    stack,      \* the frames of process_batch_recursive, innermost last
    ret,        \* the value the innermost call just returned, and how
    log,        \* the lines written to stderr
    stdout,     \* the text written to stdout
    parsed,     \* history: the records as parse_srt returned them
    returned,   \* history: the map process_batch_recursive returned per batch
    failed,     \* history: positions whose one-record batch ended in failure
    sample,     \* the text a parser is applied to on its own
    outcome,    \* what the parser returned for it
    tally       \* history of the translator call in progress: the batches
                \* called for, the batches returned and, in the specification
                \* that counts them, the number of backend calls issued

vars == <<content, args, subtitles, batches, bi, pc, stack, ret, log, stdout,
          parsed, returned, failed, sample, outcome, tally>>

\* ret.map is the returned dict; the other fields record which return
\* statement gave it, for which batch, from which halves, after how many calls
NoRet == [kind |-> "none", map |-> EmptyMap, batch |-> <<>>,
          left |-> EmptyMap, right |-> EmptyMap, ncalls |-> 0]

\* the records a batch refers to
Subs(batch) == [j \in 1..Len(batch) |-> subtitles[batch[j]]]

\* a fresh activation of process_batch_recursive(batch, args, depth), with
\* the prompt built once; ncalls counts the ollama.chat calls it has made
Frame(batch, depth) ==
    [batch |-> batch, depth |-> depth, attempt |-> 1, pc |-> "attempt",
     user_input |-> generate_prompt(Subs(batch)),
     left_batch |-> <<>>, right_batch |-> <<>>, results_left |-> EmptyMap,
     ncalls |-> 0]

NoTally == [counting |-> FALSE, spent |-> 0, called |-> {}, done |-> {}]

\* the tally of a run in which the backend calls are counted
CountingTally == [NoTally EXCEPT !.counting = TRUE]

\* the tally at the start of the next translator call
Cleared == [tally EXCEPT !.spent = 0, !.called = {}, !.done = {}]

\* ollama.chat has been called once more, for this batch
Called(batch) ==
    [tally EXCEPT !.spent = IF tally.counting THEN @ + 1 ELSE @,
                  !.called = @ \cup {batch}]

\* an invocation has returned, by this return statement
Returned(t, batch, kind) ==
    [t EXCEPT !.done = @ \cup {[batch |-> batch, kind |-> kind]}]

Top == stack[Len(stack)]
Pop == SubSeq(stack, 1, Len(stack) - 1)
SetTop(f) == [stack EXCEPT ![Len(stack)] = f]

LogLine(kind, depth, id, sizes) ==
    [kind |-> kind, depth |-> depth, id |-> id, sizes |-> sizes]

InitState ==
    /\ content \in Contents
    /\ args \in [batch_size : 1..MaxBatchSize, retries : 1..MaxRetries]
    /\ subtitles = <<>>
    /\ batches = <<>>
    /\ bi = 1
    /\ pc = "parse"
    /\ stack = <<>>
    /\ ret = NoRet
    /\ log = <<>>
    /\ stdout = <<>>
    /\ parsed = <<>>
    /\ returned = <<>>
    /\ failed = {}
    /\ sample = <<>>
    /\ outcome = <<>>

Init == InitState /\ tally = NoTally

\* the same start, in a run that counts the backend calls
BudgetInit == InitState /\ tally = CountingTally

\* main(): parse stdin, chunk, announce
Parse ==
    /\ pc = "parse"
    /\ LET subs == ParsedContent[content] IN
       /\ subtitles' = subs
       /\ parsed' = subs
       /\ batches' = Chunk(Len(subs), args.batch_size)
       /\ log' = Append(log, LogLine("start", 0, <<>>, <<Len(subs)>>))
       /\ pc' = IF Len(subs) = 0 THEN "write" ELSE "loop"
    /\ UNCHANGED <<tally, sample, outcome, content, args, bi, stack, ret, stdout, returned, failed>>

\* main(): translation_map = process_batch_recursive(batch, args)
CallTranslator ==
    /\ pc = "loop"
    /\ stack' = <<Frame(batches[bi], 0)>>
    /\ pc' = "wait"
    /\ tally' = Cleared
    /\ UNCHANGED <<sample, outcome, content, args, subtitles, batches, bi, ret, log, stdout,
                   parsed, returned, failed>>

InAttempt ==
    /\ pc = "wait"
    /\ stack # <<>>
    /\ Top.pc = "attempt"

\* mutant of LoopDone: range(1, args.retries)
LoopDoneEarly(f) == f.attempt >= args.retries

\* mutant of LoopDone: range(1, args.retries + 2)
LoopDoneLate(f) == f.attempt > args.retries + 1

\* for attempt in range(1, args.retries + 1) has run out
LoopDone(f) == f.attempt > args.retries

\* one pass of the for loop in which ollama.chat returns reply text r
BackendReply ==
    /\ InAttempt
    /\ ~LoopDone(Top)
    /\ \E r \in Replies(subtitles, Top.batch) :
       LET translation_map == ParsedReply[r]
           missing == Missing(BatchIds(Subs(Top.batch)), translation_map)
       IN  IF missing = <<>>
           THEN /\ stack' = Pop
                /\ ret' = [kind |-> "success", map |-> translation_map,
                           batch |-> Top.batch,
                           left |-> EmptyMap, right |-> EmptyMap,
                           ncalls |-> Top.ncalls + 1]
                /\ tally' = Returned(Called(Top.batch), Top.batch, "success")
           ELSE /\ stack' = SetTop([Top EXCEPT !.attempt = @ + 1, !.ncalls = @ + 1])
                /\ ret' = ret
                /\ tally' = Called(Top.batch)
    /\ UNCHANGED <<sample, outcome, content, args, subtitles, batches, bi, pc, log, stdout,
                   parsed, returned, failed>>

\* mutant of OnError: the exception is logged and raised again
OnErrorReraise(f) ==
    [stack |-> stack,
     log   |-> Append(log, LogLine("error", f.depth, <<>>, <<>>)),
     pc    |-> "crashed"]

\* mutant of OnError: the failed attempt is not counted against the budget
OnErrorNoCount(f) ==
    [stack |-> SetTop([f EXCEPT !.ncalls = @ + 1]),
     log   |-> Append(log, LogLine("error", f.depth, <<>>, <<>>)),
     pc    |-> pc]

\* what the except clause does with an exception of the try body
OnError(f) ==
    [stack |-> SetTop([f EXCEPT !.attempt = @ + 1, !.ncalls = @ + 1]),
     log   |-> Append(log, LogLine("error", f.depth, <<>>, <<>>)),
     pc    |-> pc]

IsErrorLine(l) == l.kind = "error"

\* one pass of the for loop in which ollama.chat (or reading its envelope) raises
BackendError ==
    /\ InAttempt
    /\ ~LoopDone(Top)
    /\ Len(SelectSeq(log, IsErrorLine)) < MaxErrors
    /\ LET h == OnError(Top) IN
       /\ stack' = h.stack
       /\ log' = h.log
       /\ pc' = h.pc
    /\ tally' = Called(Top.batch)
    /\ UNCHANGED <<sample, outcome, content, args, subtitles, batches, bi, ret, stdout,
                   parsed, returned, failed>>

\* retries failed and len(batch) <= 1: log the ID, return {}
\* (batch[0] raises IndexError on an empty batch, which nothing catches)
ExhaustedSingle ==
    /\ InAttempt
    /\ LoopDone(Top)
    /\ Len(Top.batch) <= 1
    /\ IF Len(Top.batch) = 0
       THEN /\ pc' = "crashed"
            /\ UNCHANGED <<stack, ret, log, failed, tally>>
       ELSE /\ log' = Append(log, LogLine("failed", Top.depth,
                                          subtitles[Top.batch[1]].index, <<>>))
            /\ stack' = Pop
            /\ ret' = [kind |-> "fallback", map |-> EmptyMap, batch |-> Top.batch,
                       left |-> EmptyMap, right |-> EmptyMap,
                       ncalls |-> Top.ncalls]
            /\ failed' = failed \cup {Top.batch[1]}
            /\ pc' = pc
            /\ tally' = Returned(tally, Top.batch, "fallback")
    /\ UNCHANGED <<sample, outcome, content, args, subtitles, batches, bi, stdout, parsed,
                   returned>>

\* mutant of Split: the right half is translated first
SplitRightFirst ==
    /\ InAttempt
    /\ LoopDone(Top)
    /\ Len(Top.batch) > 1
    /\ log' = Append(log, LogLine("split", Top.depth, <<>>,
                    <<Len(Top.batch), Len(LeftBatch(Top.batch)),
                      Len(RightBatch(Top.batch))>>))
    /\ stack' = Append(SetTop([Top EXCEPT !.pc = "left",
                                          !.left_batch = LeftBatch(Top.batch),
                                          !.right_batch = RightBatch(Top.batch)]),
                       Frame(RightBatch(Top.batch), Top.depth + 1))
    /\ UNCHANGED <<tally, sample, outcome, content, args, subtitles, batches,
                   bi, pc, ret, stdout, parsed, returned, failed>>

\* retries failed and len(batch) > 1: split, log, recurse into the left half
Split ==
    /\ InAttempt
    /\ LoopDone(Top)
    /\ Len(Top.batch) > 1
    /\ LET left_batch  == LeftBatch(Top.batch)
           right_batch == RightBatch(Top.batch)
       IN  /\ log' = Append(log, LogLine("split", Top.depth, <<>>,
                       <<Len(Top.batch), Len(left_batch), Len(right_batch)>>))
           /\ stack' = Append(SetTop([Top EXCEPT !.pc = "left",
                                                 !.left_batch = left_batch,
                                                 !.right_batch = right_batch]),
                              Frame(left_batch, Top.depth + 1))
    /\ UNCHANGED <<tally, sample, outcome, content, args, subtitles, batches, bi, pc, ret, stdout,
                   parsed, returned, failed>>

\* results_left is bound; recurse into the right half
LeftReturned ==
    /\ pc = "wait"
    /\ stack # <<>>
    /\ Top.pc = "left"
    /\ ret.kind # "none"
    /\ stack' = Append(SetTop([Top EXCEPT !.pc = "right", !.results_left = ret.map]),
                       Frame(Top.right_batch, Top.depth + 1))
    /\ ret' = NoRet
    /\ UNCHANGED <<tally, sample, outcome, content, args, subtitles, batches, bi, pc, log, stdout,
                   parsed, returned, failed>>

\* results_right is bound; return the merged dict
RightReturned ==
    /\ pc = "wait"
    /\ stack # <<>>
    /\ Top.pc = "right"
    /\ ret.kind # "none"
    /\ stack' = Pop
    /\ ret' = [kind |-> "merged",
               map |-> MergeResults(Top.results_left, ret.map),
               batch |-> Top.batch,
               left |-> Top.results_left, right |-> ret.map,
               ncalls |-> Top.ncalls]
    /\ tally' = Returned(tally, Top.batch, "merged")
    /\ UNCHANGED <<sample, outcome, content, args, subtitles, batches, bi, pc, log, stdout,
                   parsed, returned, failed>>

\* main(): the inner for loop over the batch just translated
MergeBatch ==
    /\ pc = "wait"
    /\ stack = <<>>
    /\ ret.kind # "none"
    /\ subtitles' = [p \in 1..Len(subtitles) |->
          IF \E j \in 1..Len(batches[bi]) : batches[bi][j] = p
          THEN [subtitles[p] EXCEPT !.translated_text = DriverText(ret.map, subtitles[p])]
          ELSE subtitles[p]]
    /\ returned' = Append(returned, ret.map)
    /\ ret' = NoRet
    /\ tally' = Cleared
    /\ bi' = bi + 1
    /\ pc' = IF bi + 1 > Len(batches) THEN "write" ELSE "loop"
    /\ UNCHANGED <<sample, outcome, content, args, batches, stack, log, stdout, parsed, failed>>

\* main(): write every record to stdout
Serialize ==
    /\ pc = "write"
    /\ stdout' = WriteAll(subtitles)
    /\ pc' = "done"
    /\ UNCHANGED <<tally, sample, outcome, content, args, subtitles, batches, bi, stack, ret, log,
                   parsed, returned, failed>>

Next ==
    \/ Parse
    \/ CallTranslator
    \/ BackendReply
    \/ BackendError
    \/ ExhaustedSingle
    \/ Split
    \/ LeftReturned
    \/ RightReturned
    \/ MergeBatch
    \/ Serialize

Spec == Init /\ [][Next]_vars

\* the interpreter always takes the next step, and ollama.chat returns or raises
FairSpec == Spec /\ WF_vars(Next)

\* the same program, with the backend calls of each translator call counted
BudgetSpec == BudgetInit /\ [][Next]_vars

\* main() has not started: the parsers are applied on their own
NotStarted ==
    /\ content = <<>>
    /\ args = [batch_size |-> 1, retries |-> 1]
    /\ subtitles = <<>>
    /\ batches = <<>>
    /\ bi = 1
    /\ stack = <<>>
    /\ ret = NoRet
    /\ log = <<>>
    /\ stdout = <<>>
    /\ parsed = <<>>
    /\ returned = <<>>
    /\ failed = {}
    /\ tally = NoTally

\* a reply text reaches parse_llm_response
ResponseInit ==
    /\ sample \in ReplyTexts
    /\ outcome = EmptyMap
    /\ pc = "reply"
    /\ NotStarted

\* translation_map = parse_llm_response(content)
ParseReply ==
    /\ pc = "reply"
    /\ outcome' = parse_llm_response(sample)
    /\ pc' = "replied"
    /\ UNCHANGED <<tally, sample, content, args, subtitles, batches, bi, stack, ret,
                   log, stdout, parsed, returned, failed>>

ResponseNext == ParseReply

\* parse_llm_response applied to every reply text
ResponseSpec == ResponseInit /\ [][ResponseNext]_vars

\* a subtitle text reaches parse_srt
RoundTripInit ==
    /\ sample \in SrtTexts
    /\ outcome = <<>>
    /\ pc = "srt"
    /\ NotStarted

\* subtitles = parse_srt(input_content)
ParseSample ==
    /\ pc = "srt"
    /\ subtitles' = parse_srt(sample)
    /\ pc' = "kept"
    /\ UNCHANGED <<tally, sample, outcome, content, args, batches, bi, stack, ret,
                   log, stdout, parsed, returned, failed>>

\* sub['translated_text'] = sub['text'] for every record
KeepSource ==
    /\ pc = "kept"
    /\ subtitles' = [p \in 1..Len(subtitles) |->
                       [subtitles[p] EXCEPT !.translated_text = subtitles[p].text]]
    /\ pc' = "emit"
    /\ UNCHANGED <<tally, sample, outcome, content, args, batches, bi, stack, ret,
                   log, stdout, parsed, returned, failed>>

\* the records are written to stdout
WriteSample ==
    /\ pc = "emit"
    /\ stdout' = WriteAll(subtitles)
    /\ pc' = "again"
    /\ UNCHANGED <<tally, sample, outcome, content, args, subtitles, batches, bi,
                   stack, ret, log, parsed, returned, failed>>

\* parse_srt applied to what was written
ParseWritten ==
    /\ pc = "again"
    /\ outcome' = parse_srt(stdout)
    /\ pc' = "reparsed"
    /\ UNCHANGED <<tally, sample, content, args, subtitles, batches, bi, stack, ret,
                   log, stdout, parsed, returned, failed>>

RoundTripNext ==
    \/ ParseSample
    \/ KeepSource
    \/ WriteSample
    \/ ParseWritten

\* parse_srt, the serializer and parse_srt again, on every subtitle text
RoundTripSpec == RoundTripInit /\ [][RoundTripNext]_vars

\* ----------------------------------------------------------------- claims
\* the positions of a batch, as a set
Positions(batch) == { batch[j] : j \in 1..Len(batch) }

\* the IDs of the records of a batch, as a set
IdsOf(batch) == { subtitles[p].index : p \in Positions(batch) }

HasLog(kind) == \E j \in 1..Len(log) : log[j].kind = kind

\* C1: once the driver has processed all batches, every record's
\* translated_text is non-empty, whatever the backend did.
C1_Completeness ==
    pc = "done" => \A p \in 1..Len(subtitles) : subtitles[p].translated_text # <<>>

\* C2: the translator returns from inside its attempt loop only with a map
\* that has every ID of its batch, and a returned map that is neither empty
\* nor the merge of two halves always comes from that exit.
C2_SuccessExit ==
    /\ ret.kind = "success" =>
          /\ IdsOf(ret.batch) \subseteq DOMAIN ret.map
          /\ ret.ncalls \in 1..args.retries
    /\ (ret.kind \in {"success", "fallback"} /\ ret.map # EmptyMap) =>
          ret.kind = "success"

\* C2 witness: a batch of two or more records took the success exit on a
\* second or later attempt
C2_Witness ==
    ret.kind = "success" /\ Len(ret.batch) >= 2 /\ ret.ncalls >= 2

\* the output main() should have written for records i.. : ID and timecode
\* from the parsed record, the text from the record as it is now
RECURSIVE ExpectedOut(_)
ExpectedOut(i) ==
    IF i > Len(parsed) THEN <<>>
    ELSE parsed[i].index \o <<NL>> \o parsed[i].timestamp \o <<NL>>
         \o subtitles[i].translated_text \o <<NL, NL>> \o ExpectedOut(i + 1)

\* C3: the output has exactly one block per parsed record, in parsed order,
\* each with that record's ID and timecode unchanged, whatever batches failed,
\* were bisected or fell back.
C3_OutputBlocks ==
    /\ pc # "parse" =>
          /\ Len(subtitles) = Len(parsed)
          /\ \A p \in 1..Len(parsed) :
                /\ subtitles[p].index = parsed[p].index
                /\ subtitles[p].timestamp = parsed[p].timestamp
    /\ pc = "done" =>
          /\ stdout = ExpectedOut(1)
          /\ Len(parsed) >= 1 => Len(SplitBlocks(Strip(stdout))) = Len(parsed)

\* C3 witness: a finished run over several records in which a batch was
\* bisected, a record fell back and another was translated
C3_Witness ==
    /\ pc = "done"
    /\ Len(parsed) >= 3
    /\ HasLog("split")
    /\ failed # {}
    /\ \E p \in 1..Len(subtitles) : subtitles[p].translated_text # subtitles[p].text

\* C4: a record whose ID is no key of the map returned for its batch gets
\* exactly its source text, and a record whose ID is a key gets the mapped value.
C4_DriverMerge ==
    \A k \in 1..Len(returned) : \A p \in Positions(batches[k]) :
        IF subtitles[p].index \in DOMAIN returned[k]
        THEN subtitles[p].translated_text = returned[k][subtitles[p].index]
        ELSE subtitles[p].translated_text = subtitles[p].text

\* C4 witness: a merged batch whose map has the ID of one record and lacks
\* the ID of another
C4_Witness ==
    \E k \in 1..Len(returned) : \E p, q \in Positions(batches[k]) :
        /\ subtitles[p].index \in DOMAIN returned[k]
        /\ subtitles[q].index \notin DOMAIN returned[k]

\* C5: a record whose one-record (sub-)batch ran out of attempts (the logged
\* terminal failure) ends the run with translated_text equal to its text,
\* whatever the replies to the other (sub-)batches held.
C5_FailedKeepsSource ==
    pc = "done" =>
        \A p \in failed : subtitles[p].translated_text = subtitles[p].text

\* C6: the run terminates: no error escapes the translator or the driver,
\* every translator call returns a map, and all records are serialized.
C6_Terminates ==
    /\ [](pc # "crashed")
    /\ <>(/\ pc = "done"
          /\ stack = <<>>
          /\ Len(returned) = Len(batches)
          /\ stdout = WriteAll(subtitles))

\* C6 witness: a run that met backend errors, a bisection and a terminal
\* failure and still reached the end
C6_Witness ==
    /\ pc = "done"
    /\ HasLog("error")
    /\ HasLog("split")
    /\ HasLog("failed")
    /\ Len(returned) = Len(batches)

\* C7: whenever a record got the fallback because its ID is absent from the
\* map returned for its batch, a terminal-failure line naming that ID is in
\* the log.
C7_DegradationLogged ==
    \A k \in 1..Len(returned) : \A p \in Positions(batches[k]) :
        subtitles[p].index \notin DOMAIN returned[k] =>
            /\ subtitles[p].translated_text = subtitles[p].text
            /\ \E j \in 1..Len(log) :
                  log[j].kind = "failed" /\ log[j].id = subtitles[p].index

\* C7 witness: a record of a bisected batch ended with the fallback
C7_Witness ==
    /\ pc = "done"
    /\ \E k \in 1..Len(returned) :
          /\ Len(batches[k]) >= 2
          /\ \E p \in Positions(batches[k]) :
                subtitles[p].index \notin DOMAIN returned[k]

\* a frame that has bisected its batch
Bisected(f) == f.pc \in {"left", "right"}

\* C8: a batch of n >= 2 records whose attempts all missed an ID is not
\* answered with any of those maps: it is split into its first n div 2
\* records and the rest, each half is translated by a recursive call one level
\* deeper, and the merge of the two halves' maps is returned.
C8_Bisection ==
    /\ \A i \in 1..Len(stack) : Bisected(stack[i]) =>
          LET f == stack[i]
              n == Len(f.batch)
          IN  /\ n >= 2
              /\ f.ncalls = args.retries
              /\ f.left_batch = SubSeq(f.batch, 1, n \div 2)
              /\ f.right_batch = SubSeq(f.batch, (n \div 2) + 1, n)
              /\ i < Len(stack) =>
                    /\ stack[i + 1].depth = f.depth + 1
                    /\ stack[i + 1].batch =
                          (IF f.pc = "left" THEN f.left_batch ELSE f.right_batch)
                    /\ stack[i + 1].ncalls <= args.retries
              /\ i = Len(stack) =>
                    /\ ret.kind # "none"
                    /\ ret.batch =
                          (IF f.pc = "left" THEN f.left_batch ELSE f.right_batch)
    /\ ret.kind = "merged" =>
          /\ Len(ret.batch) >= 2
          /\ ret.ncalls = args.retries
          /\ DOMAIN ret.map = (DOMAIN ret.left) \cup (DOMAIN ret.right)
          /\ \A k \in DOMAIN ret.map :
                \/ k \in DOMAIN ret.left /\ ret.map[k] = ret.left[k]
                \/ k \in DOMAIN ret.right /\ ret.map[k] = ret.right[k]

\* C8 witness: a batch of three records was split 1 + 2 and returned the
\* merge of two non-empty maps
C8_Witness ==
    /\ ret.kind = "merged"
    /\ Len(ret.batch) = 3
    /\ ret.left # EmptyMap
    /\ ret.right # EmptyMap

\* C9: a backend failure never leaves the translator: it is logged, uses up
\* exactly one attempt of the invocation it happened in, and that invocation
\* goes on (next attempt, bisection or the empty-map fallback).
C9_ErrorContained ==
    /\ [][BackendError =>
             /\ pc' = "wait"
             /\ Len(stack') = Len(stack)
             /\ stack'[Len(stack)] =
                   [Top EXCEPT !.attempt = Top.attempt + 1,
                               !.ncalls = Top.ncalls + 1]
             /\ log' = Append(log, LogLine("error", Top.depth, <<>>, <<>>))
             /\ ret' = NoRet]_vars
    /\ [](InAttempt =>
             \/ ENABLED BackendReply
             \/ ENABLED ExhaustedSingle
             \/ ENABLED Split)

\* C9 witness: the last attempt of an invocation has just failed with an
\* error and the invocation is still the innermost one
C9_Witness ==
    /\ InAttempt
    /\ LoopDone(Top)
    /\ Len(log) >= 1
    /\ log[Len(log)].kind = "error"
    /\ log[Len(log)].depth = Top.depth

\* C10: a one-record batch whose attempts all fail returns the empty map
\* after exactly args.retries backend calls, and no later call or recursive
\* invocation involves that record.
C10_SingleExhaustion ==
    /\ ret.kind = "fallback" =>
          /\ ret.map = EmptyMap
          /\ Len(ret.batch) = 1
          /\ ret.ncalls = args.retries
          /\ ret.batch[1] \in failed
    /\ \A i \in 1..Len(stack) : \A p \in failed :
          p \in Positions(stack[i].batch) => Bisected(stack[i])

\* C10 witness: a record failed inside a bisected batch and the translator
\* has moved on to the other half
C10_Witness ==
    /\ failed # {}
    /\ InAttempt
    /\ Top.ncalls >= 1
    /\ Len(stack) >= 2

\* the characters of a string, as a set
Chars(s) == { s[j] : j \in 1..Len(s) }

IsNonBlank(line) == Strip(line) # <<>>

\* the non-blank lines of a reply, as they stand in the reply
RawLines(s) == SelectSeq(SplitLines(s), IsNonBlank)

\* the lines of L that are entry headers
Headers(L) == { i \in 1..Len(L) : MatchNewBlock(Strip(L[i])).matched }

HeaderId(L, i) == MatchNewBlock(Strip(L[i])).id

\* the last line of the entry whose header is line i
EntryEnd(L, i) ==
    IF \E h \in Headers(L) : h > i
    THEN (CHOOSE h \in Headers(L) : h > i /\ \A g \in Headers(L) : g > i => h <= g) - 1
    ELSE Len(L)

\* the first text line of the entry whose header is line i, if any
EntryFirst(L, i) ==
    LET text_part == MatchNewBlock(Strip(L[i])).text
    IN  IF text_part # <<>> THEN <<text_part>> ELSE <<>>

\* the header's remainder and the lines after it, each as it stands in the
\* reply, joined with newlines and trimmed as a whole
EntryVerbatim(L, i) ==
    Strip(JoinLines(EntryFirst(L, i) \o SubSeq(L, i + 1, EntryEnd(L, i))))

\* the header's remainder and the lines after it, each trimmed, joined with
\* newlines
EntryTrimmed(L, i) ==
    JoinLines(EntryFirst(L, i)
              \o [j \in 1..(EntryEnd(L, i) - i) |-> Strip(L[i + j])])

\* the header that decides the value of its ID: no later header has the ID
IsLastOfId(L, i) ==
    \A h \in Headers(L) : h > i => HeaderId(L, h) # HeaderId(L, i)

\* the map {"1": "Hello\nworld", "2": "Bye"}
ExampleMap ==
    (<<"1">> :> <<"H", "e", "l", "l", "o", NL, "w", "o", "r", "l", "d">>)
    @@ (<<"2">> :> <<"B", "y", "e">>)

\* C11 as stated: every non-blank line that is no header and follows a
\* header is appended unchanged to the text of the most recent ID, joined
\* with newlines in reply order; lines before the first header are dropped.
C11_Verbatim ==
    pc = "replied" =>
        LET L == RawLines(sample) IN
        /\ DOMAIN outcome = { HeaderId(L, i) : i \in Headers(L) }
        /\ \A i \in Headers(L) :
              IsLastOfId(L, i) => outcome[HeaderId(L, i)] = EntryVerbatim(L, i)

\* C11 amended: every non-blank line that is no header and follows a header
\* is appended, with its leading and trailing whitespace removed, to the text
\* of the most recent ID; the lines are joined with newlines in reply order,
\* lines before the first header are dropped, every reply gives a map, and
\* the example reply gives {1: "Hello\nworld", 2: "Bye"}.
C11_MultiLine ==
    pc = "replied" =>
        LET L == RawLines(sample) IN
        /\ DOMAIN outcome = { HeaderId(L, i) : i \in Headers(L) }
        /\ \A i \in Headers(L) :
              IsLastOfId(L, i) => outcome[HeaderId(L, i)] = EntryTrimmed(L, i)
        /\ sample = ExampleReply => outcome = ExampleMap

\* C11 witness: a reply whose first line comes before any header and is
\* dropped, and whose later entry spans two lines
C11_Witness ==
    /\ pc = "replied"
    /\ LET L == RawLines(sample) IN
       /\ Len(L) = 3
       /\ 1 \notin Headers(L)
       /\ 2 \in Headers(L)
       /\ 3 \notin Headers(L)
       /\ NL \in Chars(outcome[HeaderId(L, 2)])

\* the blocks of a subtitle text, as the parser delimits them
BlocksOf(s) == SplitBlocks(Strip(s))

\* a block with an index line that has a digit, a timecode line that is not
\* blank, and at least one more line
IsWellFormedBlock(block) ==
    LET lines == SplitLines(block) IN
    /\ Len(lines) >= 3
    /\ \E j \in 1..Len(lines[1]) : IsDigit(lines[1][j])
    /\ Strip(lines[2]) # <<>>

WellFormed(s) == \A k \in 1..Len(BlocksOf(s)) : IsWellFormedBlock(BlocksOf(s)[k])

\* the (id, timecode, sourceText) of every record, in order
Triples(subs) ==
    [k \in 1..Len(subs) |-> <<subs[k].index, subs[k].timestamp, subs[k].text>>]

\* C12: for a well-formed input of N blocks of three lines or more, parsing
\* gives N records in input order, and the records written with
\* translated_text = text parse again to the same (id, timecode, text).
C12_RoundTrip ==
    (pc = "reparsed" /\ WellFormed(sample)) =>
        LET blocks == BlocksOf(sample) IN
        /\ Len(subtitles) = Len(blocks)
        /\ \A k \in 1..Len(blocks) :
              LET lines == SplitLines(blocks[k]) IN
              /\ subtitles[k].index = RemoveNonDigits(lines[1])
              /\ subtitles[k].timestamp = Strip(lines[2])
              /\ subtitles[k].text = JoinLines(SubSeq(lines, 3, Len(lines)))
        /\ Triples(outcome) = Triples(subtitles)

\* C12 witness: a well-formed text of two blocks, with stray symbols in an
\* index line and a caption of two lines, has gone round
C12_Witness ==
    /\ pc = "reparsed"
    /\ WellFormed(sample)
    /\ Len(subtitles) = 2
    /\ \E k \in 1..2 : subtitles[k].index # SplitLines(BlocksOf(sample)[k])[1]
    /\ \E k \in 1..2 : NL \in Chars(subtitles[k].text)
    /\ Len(outcome) = 2

\* batch a lies within batch b
Within(a, b) == Positions(a) \subseteq Positions(b)

Disjoint(a, b) == Positions(a) \cap Positions(b) = {}

C14_NoRetryAfterSuccess ==
    InAttempt =>
        /\ Top.user_input = generate_prompt(Subs(Top.batch))
        /\ \A d \in tally.done :
              d.kind = "success" => Disjoint(Top.batch, d.batch)
        /\ \A k \in 1..Len(returned) : Disjoint(Top.batch, batches[k])

\* C14 witness: the left half of a bisected batch has succeeded and the
\* right half is being retried
C14_Witness ==
    /\ InAttempt
    /\ Top.ncalls >= 1
    /\ Len(stack) >= 2
    /\ stack[Len(stack) - 1].pc = "right"
    /\ \E d \in tally.done :
          d.kind = "success" /\ d.batch = stack[Len(stack) - 1].left_batch

RECURSIVE CeilLog2(_)
\* the least k with 2^k >= n, for n >= 1
CeilLog2(n) == IF n <= 1 THEN 0 ELSE 1 + CeilLog2((n + 1) \div 2)

\* C15: the top-level call runs at depth 0, each recursive call one level
\* deeper, and for a top-level batch of n records no invocation runs deeper
\* than ceil(log2(n)), hence no deeper than ceil(log2(batch_size)).
C15_DepthBound ==
    \A i \in 1..Len(stack) :
        /\ stack[i].depth = i - 1
        /\ stack[i].depth <= CeilLog2(Len(batches[bi]))
        /\ stack[i].depth <= CeilLog2(args.batch_size)

\* C15 witness: a batch of three records has an invocation at depth 2
C15_Witness ==
    /\ InAttempt
    /\ Len(batches[bi]) = 3
    /\ Top.depth = 2
    /\ Top.ncalls >= 1

\* C16: every invocation issues at most args.retries backend calls, counted
\* from zero whatever its parent and siblings did; the calls for a top-level
\* batch of n records never exceed retries * (2n - 1), and are exactly that
\* many when every record of the batch ended in the terminal failure.
C16_RetryBudget ==
    /\ tally.counting
    /\ \A i \in 1..Len(stack) :
          /\ stack[i].ncalls <= args.retries
          /\ stack[i].ncalls = stack[i].attempt - 1
    /\ pc = "wait" =>
          LET n == Len(batches[bi]) IN
          /\ Cardinality(tally.called) <= 2 * n - 1
          /\ tally.spent <= args.retries * Cardinality(tally.called)
          /\ tally.spent <= args.retries * (2 * n - 1)
          /\ (stack = <<>> /\ ret.kind # "none"
                /\ Positions(batches[bi]) \subseteq failed) =>
                tally.spent = args.retries * (2 * n - 1)

\* C16 witness: every record of a batch of three failed, after
\* 2 * (2 * 3 - 1) backend calls
C16_Witness ==
    /\ pc = "wait"
    /\ stack = <<>>
    /\ ret.kind = "merged"
    /\ Len(batches[bi]) = 3
    /\ Positions(batches[bi]) \subseteq failed
    /\ args.retries = 2
    /\ tally.spent = 10

\* the batch a position belongs to
BatchesOf(p) == { k \in 1..Len(batches) : p \in Positions(batches[k]) }

\* C17: every record is in exactly one top-level batch (the batches are
\* contiguous, of size 1..batch_size, and concatenate to the parsed sequence);
\* its translated_text is empty until the translator call for its batch has
\* returned, and is written only by the step that merges that batch.
C17_AssignedOnce ==
    /\ [](pc # "parse" =>
            /\ \A p \in 1..Len(subtitles) : Cardinality(BatchesOf(p)) = 1
            /\ \A k \in 1..Len(batches) :
                  /\ Len(batches[k]) \in 1..args.batch_size
                  /\ \A j \in 1..Len(batches[k]) :
                        batches[k][j] =
                           (IF k = 1 THEN 0
                            ELSE batches[k - 1][Len(batches[k - 1])]) + j
                  /\ k = Len(batches) =>
                        batches[k][Len(batches[k])] = Len(subtitles)
            /\ \A k \in 1..Len(batches) : \A p \in Positions(batches[k]) :
                  k > Len(returned) => subtitles[p].translated_text = <<>>)
    /\ [][(pc # "parse" /\ subtitles' # subtitles) =>
            /\ pc = "wait" /\ stack = <<>> /\ ret.kind # "none"
            /\ Len(returned) = bi - 1
            /\ Len(returned') = bi
            /\ Len(subtitles') = Len(subtitles)
            /\ \A p \in 1..Len(subtitles) :
                  subtitles'[p] # subtitles[p] => p \in Positions(batches[bi])]_vars

\* C17 witness: of three batches two have been merged, the first record has
\* its translation and the third is still empty
C17_Witness ==
    /\ Len(batches) = 3
    /\ Len(returned) = 2
    /\ pc = "wait"
    /\ subtitles[1].translated_text \notin {<<>>, subtitles[1].text}
    /\ subtitles[3].translated_text = <<>>

\* C18: every batch handed to the translator has at least one record, at
\* top level and at every depth: a batch is bisected only when it has two
\* records or more, into two halves of at least one record each, and the
\* terminal-failure branch never meets an empty batch.
C18_NonEmptyBatches ==
    /\ pc # "crashed"
    /\ \A k \in 1..Len(batches) : Len(batches[k]) >= 1
    /\ \A i \in 1..Len(stack) :
          /\ Len(stack[i].batch) >= 1
          /\ Bisected(stack[i]) =>
                /\ Len(stack[i].batch) >= 2
                /\ Len(stack[i].left_batch) >= 1
                /\ Len(stack[i].right_batch) >= 1
                /\ stack[i].left_batch \o stack[i].right_batch = stack[i].batch
    /\ ret.kind = "fallback" =>
          \E j \in 1..Len(log) :
             log[j].kind = "failed" /\ log[j].id = subtitles[ret.batch[1]].index

\* C18 witness: two levels down in a batch of three, the terminal-failure
\* branch has just read the only record of a right half
C18_Witness ==
    /\ ret.kind = "fallback"
    /\ Len(stack) = 2
    /\ Top.pc = "right"
    /\ Len(Top.batch) = 2
    /\ Len(stack[1].batch) = 3

\* C19: every key of the map an invocation returns is the ID of a record of
\* the batch it was called with, and after a bisection a record of the left
\* half has the text the left half's map gave it.
C19_KeysWithinBatch ==
    /\ ret.kind # "none" => DOMAIN ret.map \subseteq IdsOf(ret.batch)
    /\ ret.kind = "merged" =>
          \A p \in Positions(LeftBatch(ret.batch)) :
             subtitles[p].index \in DOMAIN ret.left =>
                ret.map[subtitles[p].index] = ret.left[subtitles[p].index]

\* a string of one or more digits
IsId(k) == k # <<>> /\ \A j \in 1..Len(k) : IsDigit(k[j])

\* every key of every parsed reply is one or more digits
ParsedKeysAreIds ==
    /\ \A r \in AllReplies : \A k \in DOMAIN ParsedReply[r] : IsId(k)
    /\ \A r \in ReplyTexts : \A k \in DOMAIN parse_llm_response(r) : IsId(k)

\* the records of a batch whose ID is the empty string
EmptyIdIn(batch) == { p \in Positions(batch) : subtitles[p].index = <<>> }

\* C20: parsed keys are one or more digits, so a batch with a record whose
\* ID is the empty string never takes the success exit; such a record
\* reaches a one-record batch that fails, and ends with translated_text
\* equal to its text.
C20_EmptyIdFallsBack ==
    /\ ParsedKeysAreIds
    /\ \A k \in DOMAIN ret.map : IsId(k)
    /\ ret.kind = "success" => EmptyIdIn(ret.batch) = {}
    /\ \A d \in tally.done :
          /\ d.kind = "success" => EmptyIdIn(d.batch) = {}
          /\ EmptyIdIn(d.batch) # {} =>
                /\ EmptyIdIn(d.batch) \subseteq failed
                /\ Len(d.batch) >= 2 => d.kind = "merged"
    /\ \A k \in 1..Len(returned) : \A p \in EmptyIdIn(batches[k]) :
          /\ p \in failed
          /\ subtitles[p].translated_text = subtitles[p].text

\* C20 witness: a batch of a record without digits in its index line and a
\* numbered record was bisected; the first kept its text, the second was
\* translated
C20_Witness ==
    /\ pc = "done"
    /\ Len(batches) = 1
    /\ Len(subtitles) = 2
    /\ subtitles[1].index = <<>>
    /\ 1 \in failed
    /\ subtitles[1].translated_text = subtitles[1].text
    /\ subtitles[2].translated_text \notin {<<>>, subtitles[2].text}
====
